---- MODULE Spec2Model ----
(***************************************************************************)
(* A state-machine model of the AudioEngine class of src/src/js/script.js  *)
(* (the ambient soundscape mixer) and of the callers in the same file.     *)
(*                                                                         *)
(* Units.  Gains and volumes are integers in hundredths (1.0 = 100).       *)
(* Time advances in ticks of 200 ms: the 200 ms teardown timeout is one    *)
(* tick, and a setTargetAtTime with time constant 0.1 s moves a gain to    *)
(* e^-2 = 0.135 of its distance from the target in one tick.  Calls and    *)
(* callbacks interleave freely before and after each tick.  The audio      *)
(* context is taken to be running (its clock advances).                    *)
(***************************************************************************)
EXTENDS Integers, Sequences, FiniteSets, TLC

\* ------------------------------------------------------------------ bounds
InstIds == 2        \* instance numbers 1..InstIds, reused cyclically
MaxTimers == 1      \* pending teardown callbacks per source
MaxRate == 64       \* the largest sample rate a noise buffer is created for
MaxFrames == 3      \* animation frames that advance the spatial phase

\* --------------------------------------------------------------- constants
GainScale == 100        \* 1.0
AudibleThreshold == 1   \* 0.01
TimeoutTicks == 1       \* 200 ms
FastDecay == 135        \* e^(-0.2/0.1), in thousandths
SlowDecay == 670        \* e^(-0.2/0.5), in thousandths
MasterVolume == 100     \* this.masterVolume = 1.0, never reassigned
BinCount == 128         \* analyser.frequencyBinCount = fftSize / 2
MinAudible == 15
IntensityFloor == 25
NoiseScale == 200       \* a sample value of 1.0, in the noise buffer's grid

TrackIds == {"valley-audio", "rain-audio"}
GenIds == {"brown", "green", "binaural-focus"}
SourceIds == TrackIds \cup GenIds
Volumes == {0, 5, 40}
FadeTicks == {3}

VARIABLES
    tracks,      \* this.tracks: id -> record, type "none" while not registered
    element,     \* the page's audio elements: id -> [volume, muted, paused]
    loadPc,      \* where addTrack(id) stands: idle, fetch, body, decode, done
    addOutcome,  \* the promise addTrack(id) returned: none, pending, resolved, rejected
    generators,  \* this.generators: id -> record, present FALSE until first reference
    timers,      \* pending setTimeout callbacks per source: ticks left, oldest first
    live,        \* per source: instances started and not yet stopped
    created,     \* per source: number of the instance created last (0: none yet)
    isMuted,     \* this.isMuted
    master,      \* this.masterGain.gain and its automation, and this.masterVolume
    playbackState, \* navigator.mediaSession.playbackState
    noise,       \* createNoiseBuffer('brown'): its loop's position and variables
    spatial,     \* spatialEnabled, spatialTime and every track's pan
    sleep,       \* the sleep timer: its intervals, the handle held, fades requested
    scn,         \* how far the binaural restart scenario has come (0: not under way)
    last,        \* the latest call or callback (the passing of time is not recorded)
    ret          \* what that operation returned, or what it asked of the audio element

mixerVars == <<tracks, element, loadPc, addOutcome, generators, timers, live, created>>
masterVars == <<isMuted, master, playbackState, scn>>
vars == <<tracks, element, loadPc, addOutcome, generators, timers, live, created,
          isMuted, master, playbackState, scn, noise, spatial, sleep, last, ret>>

NoRet == [kind |-> "none"]
Op(op, id, vol) == [op |-> op, id |-> id]

\* the number of the instance created after instance n
Fresh(n) == (n % InstIds) + 1

\* ------------------------------------------------------------ gain curves
Abs(x) == IF x < 0 THEN -x ELSE x

ApproachStalls(value, target, decay) == value
\* One tick of AudioParam.setTargetAtTime: exponential approach to target.
Approach(value, target, decay) ==
    LET d == value - target
        nd == (Abs(d) * decay) \div 1000
    IN  IF d >= 0 THEN target + nd ELSE target - nd

\* ------------------------------------------------------------------ state
NoTrack == [type |-> "none"]
BufferTrackAtDefaultGain ==
    [type |-> "buffer", gainValue |-> GainScale, gainTarget |-> GainScale, source |-> 0,
     isPlaying |-> FALSE]
\* gain.gain.value = 0; source: null; isPlaying: false
NewBufferTrack ==
    [type |-> "buffer", gainValue |-> 0, gainTarget |-> 0, source |-> 0, isPlaying |-> FALSE]
Html5Track == [type |-> "html5"]
NoGen == [present |-> FALSE, gains |-> 0, gainValue |-> 0, gainTarget |-> 0,
          nodes |-> <<>>, started |-> <<>>, output |-> "", inst |-> 0, active |-> FALSE]
\* ctx.createGain() yields a gain of 1.0
NewGen == [present |-> TRUE, gains |-> 1, gainValue |-> GainScale, gainTarget |-> GainScale,
           nodes |-> <<>>, started |-> <<>>, output |-> "", inst |-> 0, active |-> FALSE]

\* no noise buffer is being filled
NoNoise == [rate |-> 0, size |-> 0, i |-> 0, lastOut |-> 0, sample |-> 0]

\* spatialEnabled = false, spatialTime = 0 (in steps of 0.005); a panner's pan
\* is 0 until something sets it
PanDefault == [mode |-> "default", at |-> 0]
NoSpatial == [enabled |-> FALSE, time |-> 0, pan |-> [id \in TrackIds |-> PanDefault]]

\* no countdown has been started: timerInt is undefined, no interval runs
NoSleep == [timerInt |-> 0, intervals |-> {}, secs |-> 0, fades |-> 0]

Init ==
    /\ tracks = [id \in TrackIds |-> NoTrack]
    /\ element = [id \in TrackIds |-> [volume |-> GainScale, muted |-> FALSE, paused |-> TRUE]]
    /\ loadPc = [id \in TrackIds |-> "idle"]
    /\ addOutcome = [id \in TrackIds |-> "none"]
    /\ generators = [id \in GenIds |-> NoGen]
    /\ timers = [id \in SourceIds |-> <<>>]
    /\ live = [id \in SourceIds |-> {}]
    /\ created = [id \in SourceIds |-> 0]
    /\ isMuted = TRUE
    /\ master = [value |-> GainScale, target |-> GainScale, decay |-> 0, rampIn |-> 0,
                 volume |-> MasterVolume]
    /\ playbackState = "none"
    /\ scn = 0
    /\ noise = NoNoise
    /\ spatial = NoSpatial
    /\ sleep = NoSleep
    /\ last = Op("init", "", 0)
    /\ ret = NoRet

\* --------------------------------------------------------------- addTrack
\* The DOMContentLoaded handler calls addTrack once for each track id.
AddTrack(id) ==
    /\ loadPc[id] = "idle"
    /\ \E hasSrc \in BOOLEAN :
          IF hasSrc
          THEN /\ loadPc' = [loadPc EXCEPT ![id] = "fetch"]
               /\ addOutcome' = [addOutcome EXCEPT ![id] = "pending"]
          ELSE /\ loadPc' = [loadPc EXCEPT ![id] = "done"]
               /\ addOutcome' = [addOutcome EXCEPT ![id] = "resolved"]
    /\ last' = Op("addTrack", id, 0)
    /\ ret' = NoRet
    /\ UNCHANGED <<tracks, element, generators, timers, live, created, isMuted, master, playbackState, scn, noise, spatial, sleep>>

NextStage(pc) == IF pc = "fetch" THEN "body" ELSE "decode"

\* An await of the try block is fulfilled: fetch with an OK status, arrayBuffer,
\* decodeAudioData; after the last one the buffer track is registered.
LoadAdvance(id) ==
    /\ loadPc[id] \in {"fetch", "body", "decode"}
    /\ IF loadPc[id] = "decode"
       THEN /\ tracks' = [tracks EXCEPT ![id] = NewBufferTrack]
            /\ loadPc' = [loadPc EXCEPT ![id] = "done"]
            /\ addOutcome' = [addOutcome EXCEPT ![id] = "resolved"]
       ELSE /\ loadPc' = [loadPc EXCEPT ![id] = NextStage(loadPc[id])]
            /\ UNCHANGED <<tracks, addOutcome>>
    /\ last' = Op("loadAdvance", id, 0)
    /\ ret' = NoRet
    /\ UNCHANGED <<element, generators, timers, live, created, isMuted, master, playbackState, scn, noise, spatial, sleep>>

\* element.muted = this.isMuted
FallbackMutedAlways(muted) == TRUE
FallbackUnmuted(muted) == FALSE
FallbackMuted(muted) == muted

\* what becomes of addTrack's promise once the catch block has run
CatchOutcome == "resolved"

\* An await of the try block fails (fetch rejects, status not OK, arrayBuffer or
\* decodeAudioData rejects): the catch block registers the HTML5 fallback.
LoadFail(id) ==
    /\ loadPc[id] \in {"fetch", "body", "decode"}
    /\ element' = [element EXCEPT ![id] =
                      [@ EXCEPT !.volume = 0, !.muted = FallbackMuted(isMuted)]]
    /\ tracks' = [tracks EXCEPT ![id] = Html5Track]
    /\ loadPc' = [loadPc EXCEPT ![id] = "done"]
    /\ addOutcome' = [addOutcome EXCEPT ![id] = CatchOutcome]
    /\ last' = Op("loadFail", id, 0)
    /\ ret' = NoRet
    /\ UNCHANGED <<generators, timers, live, created, isMuted, master, playbackState, scn, noise, spatial, sleep>>

\* ---------------------------------------------------------- setTrackVolume
StartAlways(vol, playing) == vol > 0
\* vol > 0 && !track.isPlaying   /   vol > 0 && !gen.active
ShouldStart(vol, playing) == vol > 0 /\ ~playing

ScheduleNever(vol, playing) == FALSE
\* vol === 0 && track.isPlaying   /   vol === 0 && gen.active
ShouldSchedule(vol, playing) == vol = 0 /\ playing

PlayNeverRetried(vol, paused, volume) == vol > 0 /\ paused /\ volume = 0
\* vol > 0 && track.element.paused
ShouldPlay(vol, paused, volume) == vol > 0 /\ paused

\* what the fallback branch asks of the audio element: play() when vol > 0 and
\* the element is paused (started tells whether the platform let it begin),
\* pause() when vol === 0 (wasPlaying tells whether the element was playing)
ElementRequest(vol, before, after) ==
    IF ShouldPlay(vol, before.paused, before.volume) THEN [kind |-> "play", started |-> ~after.paused]
    ELSE IF vol = 0 THEN [kind |-> "pause", wasPlaying |-> ~before.paused]
    ELSE NoRet

SetTrackVolume(id, vol) ==
    /\ LET track == tracks[id] IN
       IF track.type = "buffer" THEN
           /\ IF ShouldStart(vol, track.isPlaying) THEN
                  /\ tracks' = [tracks EXCEPT ![id] =
                         [track EXCEPT !.gainTarget = vol,
                                       !.source = Fresh(created[id]),
                                       !.isPlaying = TRUE]]
                  /\ created' = [created EXCEPT ![id] = Fresh(@)]
                  /\ live' = [live EXCEPT ![id] = @ \cup {Fresh(created[id])}]
                  /\ UNCHANGED timers
              ELSE IF ShouldSchedule(vol, track.isPlaying) THEN
                  /\ Len(timers[id]) < MaxTimers
                  /\ tracks' = [tracks EXCEPT ![id] = [track EXCEPT !.gainTarget = vol]]
                  /\ timers' = [timers EXCEPT ![id] = Append(@, TimeoutTicks)]
                  /\ UNCHANGED <<created, live>>
              ELSE
                  /\ tracks' = [tracks EXCEPT ![id] = [track EXCEPT !.gainTarget = vol]]
                  /\ UNCHANGED <<timers, created, live>>
           /\ UNCHANGED element
       ELSE IF track.type = "html5" THEN
           /\ IF ShouldPlay(vol, element[id].paused, element[id].volume) THEN
                  \* element.play(): begins playback, or is rejected by the platform
                  \E allowed \in BOOLEAN :
                      element' = [element EXCEPT ![id] =
                          [@ EXCEPT !.volume = vol, !.paused = ~allowed]]
              ELSE IF vol = 0 THEN
                  element' = [element EXCEPT ![id] =
                      [@ EXCEPT !.volume = vol, !.paused = TRUE]]
              ELSE
                  element' = [element EXCEPT ![id] = [@ EXCEPT !.volume = vol]]
           /\ UNCHANGED <<tracks, timers, created, live>>
       ELSE
           UNCHANGED <<tracks, element, timers, created, live>>
    /\ last' = Op("setTrackVolume", id, vol)
    /\ ret' = IF tracks[id].type = "html5"
              THEN ElementRequest(vol, element[id], element'[id]) ELSE NoRet
    /\ UNCHANGED <<loadPc, addOutcome, generators, isMuted, master, playbackState, scn, noise, spatial, sleep>>

StopForgotten(instances, inst) == instances
\* source.stop() / n.stop(): the instance is no longer running
Stopped(instances, inst) == instances \ {inst}

StopWheneverSource(gainValue, hasSource) == hasSource
\* track.gain.gain.value < 0.01 && track.source
ShouldStop(gainValue, hasSource) == gainValue < AudibleThreshold /\ hasSource

TornDownKeepsFlag(track) == [track EXCEPT !.source = 0]
\* track.source = null; track.isPlaying = false
TornDown(track) == [track EXCEPT !.source = 0, !.isPlaying = FALSE]

\* The callback of setTrackVolume's setTimeout runs.
TrackTimeout(id) ==
    /\ timers[id] # <<>>
    /\ Head(timers[id]) = 0
    /\ tracks[id].type = "buffer"
    /\ timers' = [timers EXCEPT ![id] = Tail(@)]
    /\ LET track == tracks[id] IN
       IF ShouldStop(track.gainValue, track.source # 0)
       THEN /\ live' = [live EXCEPT ![id] = Stopped(@, track.source)]
            /\ tracks' = [tracks EXCEPT ![id] = TornDown(track)]
       ELSE UNCHANGED <<live, tracks>>
    /\ last' = Op("trackTimeout", id, 0)
    /\ ret' = NoRet
    /\ UNCHANGED <<element, loadPc, addOutcome, generators, created, isMuted, master, playbackState, scn, noise, spatial, sleep>>

\* --------------------------------------------------------- updateGenerator
\* The restart scenario on one generator: enableBinaural('focus', 0.4), then
\* enableBinaural('focus', 0) with no other callback pending, then
\* enableBinaural('focus', 0.4) before that callback runs, then the callback.
\* scn counts the steps of it taken so far (4: the callback has run).
ScnGen == "binaural-focus"
ScnVol == (4 * GainScale) \div 10

ScnAfterCall(phase, vol, nonePending) ==
    IF vol = ScnVol /\ phase = 2 THEN 3
    ELSE IF vol = ScnVol THEN 1
    ELSE IF vol = 0 /\ phase = 1 /\ nonePending THEN 2
    ELSE 0

ScnAfterTimeout(phase) ==
    IF phase = 3 THEN 4 ELSE IF phase = 2 THEN 0 ELSE phase

\* what the construction function of each enable* method returns
GenNodes(id) ==
    CASE id = "brown" -> <<"src">>
      [] id = "green" -> <<"src", "filter">>
      [] OTHER -> <<"oscL", "oscR", "merger">>

\* result.length === 1 ? [result[0]] : result.slice(0, result.length - 1)
StartAll(result) == result
Startables(result) ==
    IF Len(result) = 1 THEN result ELSE SubSeq(result, 1, Len(result) - 1)

\* result.length === 1 ? result[0] : result[result.length - 1]
OutputNode(result) == result[Len(result)]

UpdateGenerator(id, vol) ==
    /\ LET gen == IF generators[id].present THEN generators[id] ELSE NewGen IN
       IF ShouldStart(vol, gen.active) THEN
           /\ generators' = [generators EXCEPT ![id] =
                  [gen EXCEPT !.gainTarget = vol,
                              !.nodes = GenNodes(id),
                              !.started = Startables(GenNodes(id)),
                              !.output = OutputNode(GenNodes(id)),
                              !.inst = Fresh(created[id]),
                              !.active = TRUE]]
           /\ created' = [created EXCEPT ![id] = Fresh(@)]
           /\ live' = [live EXCEPT ![id] = @ \cup {Fresh(created[id])}]
           /\ UNCHANGED timers
       ELSE IF ShouldSchedule(vol, gen.active) THEN
           /\ Len(timers[id]) < MaxTimers
           /\ generators' = [generators EXCEPT ![id] = [gen EXCEPT !.gainTarget = vol]]
           /\ timers' = [timers EXCEPT ![id] = Append(@, TimeoutTicks)]
           /\ UNCHANGED <<created, live>>
       ELSE
           /\ generators' = [generators EXCEPT ![id] = [gen EXCEPT !.gainTarget = vol]]
           /\ UNCHANGED <<timers, created, live>>
    /\ scn' = IF id = ScnGen THEN ScnAfterCall(scn, vol, timers[id] = <<>>) ELSE scn
    /\ last' = Op("updateGenerator", id, vol)
    /\ ret' = NoRet
    /\ UNCHANGED <<tracks, element, loadPc, addOutcome, isMuted, master, playbackState, noise, spatial, sleep>>

\* gen.gain.gain.value < 0.01
GenShouldStop(gainValue) == gainValue < AudibleThreshold

\* The callback of updateGenerator's setTimeout runs.
GenTimeout(id) ==
    /\ timers[id] # <<>>
    /\ Head(timers[id]) = 0
    /\ generators[id].present
    /\ timers' = [timers EXCEPT ![id] = Tail(@)]
    /\ LET gen == generators[id] IN
       IF GenShouldStop(gen.gainValue)
       THEN /\ live' = [live EXCEPT ![id] = Stopped(@, gen.inst)]
            /\ generators' = [generators EXCEPT ![id] =
                   [gen EXCEPT !.nodes = <<>>, !.started = <<>>, !.output = "",
                               !.inst = 0, !.active = FALSE]]
       ELSE UNCHANGED <<live, generators>>
    /\ scn' = IF id = ScnGen THEN ScnAfterTimeout(scn) ELSE scn
    /\ last' = Op("genTimeout", id, 0)
    /\ ret' = NoRet
    /\ UNCHANGED <<tracks, element, loadPc, addOutcome, created, isMuted, master, playbackState, noise, spatial, sleep>>

\* ------------------------------------------------------------ master gain
\* master: value is masterGain.gain.value; target is the value the latest
\* automation call asked for; decay > 0 while a setTargetAtTime approach is
\* the running event; rampIn > 0 while a linearRampToValueAtTime(0, ...) event
\* lies ahead, that many ticks away.  A ramp event that lies ahead governs the
\* curve up to its end time, also when a setTargetAtTime was inserted before it.
MasterTick(m) ==
    IF m.rampIn > 0
    THEN [m EXCEPT !.value = IF m.rampIn = 1 THEN 0 ELSE m.value - (m.value \div m.rampIn),
                   !.rampIn = m.rampIn - 1,
                   !.decay = IF m.rampIn = 1 THEN 0 ELSE m.decay]
    ELSE IF m.decay > 0
    THEN [m EXCEPT !.value = Approach(m.value, m.target, m.decay)]
    ELSE m

MuteTargetInverted(muted) == IF muted THEN MasterVolume ELSE 0
\* this.isMuted ? 0 : this.masterVolume
MuteTarget(muted) == IF muted THEN 0 ELSE master.volume

\* this.isMuted ? 'paused' : 'playing'
SessionState(muted) == IF muted THEN "paused" ELSE "playing"

\* toggleMasterMute as a function of the state it reads and writes
ToggleResult(muted, m, el, tr) ==
    [isMuted |-> ~muted,
     master |-> [m EXCEPT !.target = MuteTarget(~muted), !.decay = FastDecay],
     element |-> [id \in TrackIds |->
                     IF tr[id].type = "html5" THEN [el[id] EXCEPT !.muted = ~muted]
                     ELSE el[id]],
     playbackState |-> SessionState(~muted),
     ret |-> ~(~muted)]

ToggleMasterMute ==
    /\ LET r == ToggleResult(isMuted, master, element, tracks) IN
        /\ isMuted' = r.isMuted
        /\ master' = r.master
        /\ element' = r.element
        /\ playbackState' = r.playbackState
        /\ ret' = [kind |-> "bool", value |-> r.ret]
    /\ last' = Op("toggleMasterMute", "", 0)
    /\ UNCHANGED <<tracks, loadPc, addOutcome, generators, timers, live, created, scn, noise, spatial, sleep>>

\* a media-session action handler: it calls toggleMasterMute or does nothing
MediaAction(action, toggles) ==
    /\ IF toggles
       THEN LET r == ToggleResult(isMuted, master, element, tracks) IN
            /\ isMuted' = r.isMuted
            /\ master' = r.master
            /\ element' = r.element
            /\ playbackState' = r.playbackState
       ELSE UNCHANGED <<isMuted, master, element, playbackState>>
    /\ last' = Op("mediaSession", action, 0)
    /\ ret' = NoRet
    /\ UNCHANGED <<tracks, loadPc, addOutcome, generators, timers, live, created, scn, noise, spatial, sleep>>

\* 'play': if (this.isMuted) this.toggleMasterMute()
MediaPlay == MediaAction("play", isMuted)
\* 'pause': if (!this.isMuted) this.toggleMasterMute()
MediaPause == MediaAction("pause", ~isMuted)
\* 'stop': this.toggleMasterMute()
MediaStop == MediaAction("stop", TRUE)

\* cancelScheduledValues, setValueAtTime(current value), linearRampToValueAtTime(0, now + d)
MasterAfterFade(m, d) == [m EXCEPT !.target = 0, !.decay = 0, !.rampIn = d]

FadeMasterOut(d) ==
    /\ master' = MasterAfterFade(master, d)
    /\ last' = Op("fadeMasterOut", "", d)
    /\ ret' = NoRet
    /\ UNCHANGED <<mixerVars, isMuted, playbackState, scn, noise, spatial, sleep>>

ResetToFullVolume ==
    /\ master' = [master EXCEPT !.target = MuteTarget(isMuted), !.decay = SlowDecay,
                                !.rampIn = 0, !.volume = GainScale + 1]
    /\ last' = Op("resetMasterVolume", "", 0)
    /\ ret' = NoRet
    /\ UNCHANGED <<mixerVars, isMuted, playbackState, scn, noise, spatial, sleep>>
ResetWithoutCancel ==
    /\ master' = [master EXCEPT !.target = MuteTarget(isMuted), !.decay = SlowDecay]
    /\ last' = Op("resetMasterVolume", "", 0)
    /\ ret' = NoRet
    /\ UNCHANGED <<mixerVars, isMuted, playbackState, scn, noise, spatial, sleep>>
\* cancelScheduledValues, setTargetAtTime(isMuted ? 0 : masterVolume, now, 0.5)
MasterAfterReset(m, muted) ==
    [m EXCEPT !.target = MuteTarget(muted), !.decay = SlowDecay, !.rampIn = 0]

ResetMasterVolume ==
    /\ master' = MasterAfterReset(master, isMuted)
    /\ last' = Op("resetMasterVolume", "", 0)
    /\ ret' = NoRet
    /\ UNCHANGED <<mixerVars, isMuted, playbackState, scn, noise, spatial, sleep>>

\* ----------------------------------------------------------------- spatial
\* if (t.panner): only a decoded track has a panner
HasPanner(id) == tracks[id].type = "buffer"

\* panner.pan.setTargetAtTime(0, now, 0.5)
PanCentering == [mode |-> "centering", at |-> 0]

\* panner.pan.setValueAtTime(Math.sin(spatialTime + offset) * 0.7, now): the
\* value is a function of the phase and of the track's position
FramePan(time) == [mode |-> "frame", at |-> time]

\* the phase after one frame, in steps of 0.005
FramePhaseAlways(time, enabled) == time + 1
FramePhase(time, enabled) == IF enabled THEN time + 1 ELSE time

ToggleSpatial(enabled) ==
    /\ spatial' = [spatial EXCEPT
                      !.enabled = enabled,
                      !.pan = [id \in TrackIds |->
                                  IF ~enabled /\ HasPanner(id) THEN PanCentering
                                  ELSE spatial.pan[id]]]
    /\ last' = Op("toggleSpatial", "", 0)
    /\ ret' = NoRet
    /\ UNCHANGED <<mixerVars, masterVars, noise, sleep>>

\* one run of the requestAnimationFrame callback of startSpatialLoop
AnimationFrame ==
    /\ FramePhase(spatial.time, spatial.enabled) <= MaxFrames
    /\ LET time == FramePhase(spatial.time, spatial.enabled) IN
        spatial' = [spatial EXCEPT
                      !.time = time,
                      !.pan = [id \in TrackIds |->
                                  IF spatial.enabled /\ HasPanner(id) THEN FramePan(time)
                                  ELSE spatial.pan[id]]]
    /\ last' = Op("animationFrame", "", 0)
    /\ ret' = NoRet
    /\ UNCHANGED <<mixerVars, masterVars, noise, sleep>>

\* ------------------------------------------------------------- sleep timer
\* setCustomTimer and addTime pass whole minutes, times 60
Minutes == {0, 1, 2}
FadeAt == 60
\* fadeMasterOut(60): sixty seconds of the context's clock
FadeSeconds == 60
TicksPerSecond == 5

\* if (left === 60) audio.fadeMasterOut(60)
FadesAtExpiry(left) == left <= 0
FadesNow(left) == left = FadeAt
\* if (left <= 0)
Expires(left) == left <= 0

\* clearInterval(h): the interval with that handle, if there is one, stops
Cleared(intervals, h) == {iv \in intervals : iv.h # h}

\* the master gain after one run of tick with the given seconds left: the
\* fade, then on expiry clearTime's reset and the reset that follows the sliders
MasterAfterTick(m, left) ==
    LET faded == IF FadesNow(left) THEN MasterAfterFade(m, FadeSeconds * TicksPerSecond) ELSE m
    IN IF Expires(left) THEN MasterAfterReset(MasterAfterReset(faded, isMuted), isMuted)
       ELSE faded

\* the slider of this source, at zero, makes its handler schedule a teardown
NeedsTeardown(id) ==
    IF id \in TrackIds
    THEN tracks[id].type = "buffer" /\ ShouldSchedule(0, tracks[id].isPlaying)
    ELSE generators[id].present /\ ShouldSchedule(0, generators[id].active)

\* el.value = 0; el.dispatchEvent(new Event('input')) on every range input:
\* setTrackVolume(id, 0) for every track and enable*(0) for every generator
SlidersToZero ==
    /\ \A id \in SourceIds : NeedsTeardown(id) => Len(timers[id]) < MaxTimers
    /\ tracks' = [id \in TrackIds |->
                     IF tracks[id].type = "buffer"
                     THEN [tracks[id] EXCEPT !.gainTarget = 0] ELSE tracks[id]]
    /\ element' = [id \in TrackIds |->
                      IF tracks[id].type = "html5"
                      THEN [element[id] EXCEPT !.volume = 0, !.paused = TRUE]
                      ELSE element[id]]
    /\ generators' = [id \in GenIds |->
                         [(IF generators[id].present THEN generators[id] ELSE NewGen)
                             EXCEPT !.gainTarget = 0]]
    /\ timers' = [id \in SourceIds |->
                     IF NeedsTeardown(id) THEN Append(timers[id], TimeoutTicks)
                     ELSE timers[id]]
    /\ scn' = ScnAfterCall(scn, 0, timers[ScnGen] = <<>>)
    /\ UNCHANGED <<live, created, loadPc, addOutcome>>

\* what one run of tick does to everything but the interval table
TickBody(left) ==
    /\ master' = MasterAfterTick(master, left)
    /\ IF Expires(left) THEN SlidersToZero ELSE UNCHANGED <<mixerVars, scn>>
    /\ ret' = NoRet
    /\ UNCHANGED <<isMuted, playbackState, noise, spatial>>

\* startTimer(secs): clearInterval, reset, one immediate tick, then setInterval
StartTimer(secs) ==
    /\ LET stopped == Cleared(sleep.intervals, sleep.timerInt)
           m == MasterAfterReset(master, isMuted)
           h == Fresh(sleep.timerInt)
           ran == IF Expires(secs) THEN Cleared(stopped, sleep.timerInt) ELSE stopped
       IN /\ master' = MasterAfterTick(m, secs)
          /\ sleep' = [timerInt |-> h,
                       intervals |-> ran \cup {[h |-> h, left |-> secs - 1]},
                       secs |-> secs,
                       fades |-> IF FadesNow(secs) THEN 1 ELSE 0]
    /\ IF Expires(secs) THEN SlidersToZero ELSE UNCHANGED <<mixerVars, scn>>
    /\ last' = Op("startTimer", "", secs)
    /\ ret' = NoRet
    /\ UNCHANGED <<isMuted, playbackState, noise, spatial>>

\* the interval's callback runs: tick, with this countdown's seconds left
IntervalTick(iv) ==
    /\ iv \in sleep.intervals
    /\ TickBody(iv.left)
    /\ LET ran == IF Expires(iv.left) THEN Cleared(sleep.intervals, sleep.timerInt)
                  ELSE sleep.intervals
       IN sleep' = [sleep EXCEPT
                      !.intervals = {IF other = iv THEN [other EXCEPT !.left = iv.left - 1]
                                     ELSE other : other \in ran},
                      !.fades = IF FadesNow(iv.left) /\ @ < 2 THEN @ + 1 ELSE @]
    /\ last' = Op("intervalTick", "", iv.left)

\* window.clearTime(): clearInterval(timerInt), reset
ClearTime ==
    /\ sleep' = [sleep EXCEPT !.intervals = Cleared(sleep.intervals, sleep.timerInt)]
    /\ master' = MasterAfterReset(master, isMuted)
    /\ last' = Op("clearTime", "", 0)
    /\ ret' = NoRet
    /\ UNCHANGED <<mixerVars, isMuted, playbackState, scn, noise, spatial>>

\* -------------------------------------------------------------------- time
TimerDue == \E id \in SourceIds : timers[id] # <<>> /\ Head(timers[id]) = 0

Dec(n) == IF n > 0 THEN n - 1 ELSE 0

\* 200 ms pass: every gain follows its automation, every timeout comes closer.
\* A callback that is due runs before more time passes.
Tick ==
    /\ ~TimerDue
    /\ tracks' = [id \in TrackIds |->
          IF tracks[id].type = "buffer"
          THEN [tracks[id] EXCEPT !.gainValue =
                   Approach(tracks[id].gainValue, tracks[id].gainTarget, FastDecay)]
          ELSE tracks[id]]
    /\ generators' = [id \in GenIds |->
          IF generators[id].present
          THEN [generators[id] EXCEPT !.gainValue =
                   Approach(generators[id].gainValue, generators[id].gainTarget, FastDecay)]
          ELSE generators[id]]
    /\ timers' = [id \in SourceIds |-> [i \in 1..Len(timers[id]) |-> Dec(timers[id][i])]]
    /\ master' = MasterTick(master)
    /\ UNCHANGED <<element, loadPc, addOutcome, live, created, isMuted, playbackState,
                   scn, noise, spatial, sleep, last, ret>>

\* ------------------------------------------------------------- getAnalysis
\* for (i = 0; i < data.length; i++) sum += data[i], over bins lo..hi
RECURSIVE SumRange(_, _, _)
SumRange(data, lo, hi) ==
    IF lo > hi THEN 0
    ELSE IF lo = hi THEN data[lo]
    ELSE LET mid == (lo + hi) \div 2
         IN  SumRange(data, lo, mid) + SumRange(data, mid + 1, hi)

\* the analyser's byte spectrum: bins 1..k hold a, the others b
Spectrum(a, b, k) == [i \in 1..BinCount |-> IF i <= k THEN a ELSE b]
\* silent, just below and at the threshold, between threshold and floor, at the
\* floor, full scale, and three uneven spectra (means 1.99, 14.5 and 15.88)
Shapes == {<<0, 0, 0>>, <<0, 14, 0>>, <<0, 15, 0>>, <<0, 24, 0>>, <<0, 25, 0>>,
           <<0, 255, 0>>, <<255, 0, 1>>, <<15, 14, 64>>, <<255, 14, 1>>}

ActiveWithoutFallback ==
    \/ \E id \in TrackIds : tracks[id].type = "buffer" /\ tracks[id].isPlaying
    \/ \E id \in GenIds : generators[id].present /\ generators[id].active
\* the two loops over this.tracks and this.generators
HasActiveAudio ==
    \/ \E id \in TrackIds :
          \/ tracks[id].type = "buffer" /\ tracks[id].isPlaying
          \/ tracks[id].type = "html5" /\ ~element[id].paused /\ element[id].volume > 0
    \/ \E id \in GenIds : generators[id].present /\ generators[id].active

IntensityNoFloor(sum, active) == sum
FloorAlways(sum, active) == IntensityFloor * BinCount
\* The returned intensity times BinCount (the mean is sum / BinCount).
Intensity(sum, active) ==
    IF active /\ sum < MinAudible * BinCount THEN IntensityFloor * BinCount ELSE sum

\* the sum of each spectrum of the family, as the loop computes it
ShapeSum == [sh \in Shapes |-> SumRange(Spectrum(sh[1], sh[2], sh[3]), 1, BinCount)]

GetAnalysis(sh) ==
    /\ LET sum == ShapeSum[sh] IN
       ret' = [kind |-> "analysis", sum |-> sum, active |-> HasActiveAudio,
               value |-> Intensity(sum, HasActiveAudio)]
    /\ last' = Op("getAnalysis", "", 0)
    /\ UNCHANGED <<mixerVars, masterVars, noise, spatial, sleep>>

\* ------------------------------------------------------- createNoiseBuffer
\* ctx.sampleRate
SampleRates == {1, MaxRate}
\* Math.random() * 2 - 1: the two ends of the range, and its middle
Whites == {-NoiseScale, 0, NoiseScale}

\* n / d, rounded to the grid point below or above it
Rounded(n, d, up) == IF up THEN -((-n) \div d) ELSE n \div d

BrownNoLeak(lastOut, white, up) == lastOut + Rounded(2 * white, 100, up)
\* (lastOut + (0.02 * white)) / 1.02
BrownNext(lastOut, white, up) == Rounded(100 * lastOut + 2 * white, 102, up)

\* data[i] *= 3.5
Scaled(value, up) == Rounded(35 * value, 10, up)

\* createNoiseBuffer('brown') is entered: bufferSize = 2 * sampleRate, lastOut = 0
CreateNoiseBuffer(rate) ==
    /\ noise.i = noise.size
    /\ noise' = [rate |-> rate, size |-> 2 * rate, i |-> 0, lastOut |-> 0, sample |-> 0]
    /\ last' = Op("createNoiseBuffer", "", 0)
    /\ ret' = NoRet
    /\ UNCHANGED <<mixerVars, masterVars, spatial, sleep>>

\* One pass of the loop body; after the last pass the buffer is returned.
BrownStep(white, up, upScaled) ==
    /\ noise.i < noise.size
    /\ LET out == BrownNext(noise.lastOut, white, up) IN
       noise' = [noise EXCEPT !.i = @ + 1, !.lastOut = out, !.sample = Scaled(out, upScaled)]
    /\ ret' = IF noise'.i = noise.size
              THEN [kind |-> "buffer", length |-> noise'.i] ELSE NoRet
    /\ UNCHANGED <<mixerVars, masterVars, spatial, sleep, last>>

\* ---------------------------------------------------------- specifications
\* the sources the mixer specification drives
MixTracks == {"valley-audio"}
MixGens == {"binaural-focus"}

Next ==
    \/ \E id \in MixTracks : AddTrack(id)
    \/ \E id \in MixTracks : LoadAdvance(id)
    \/ \E id \in MixTracks : LoadFail(id)
    \/ \E id \in MixTracks, vol \in Volumes : SetTrackVolume(id, vol)
    \/ \E id \in MixTracks : TrackTimeout(id)
    \/ \E id \in MixGens, vol \in Volumes : UpdateGenerator(id, vol)
    \/ \E id \in MixGens : GenTimeout(id)
    \/ Tick

Spec == Init /\ [][Next]_vars

\* The context's clock advances and a setTimeout callback that is due runs.
MixFairness ==
    /\ WF_vars(Tick)
    /\ \A id \in MixTracks : WF_vars(TrackTimeout(id))
    /\ \A id \in MixGens : WF_vars(GenTimeout(id))

\* The ramp specification: the mixer's sources share no state (each has its own
\* gain node, flags and callbacks), so a behaviour drives either the track or
\* the generator, with the clock and the callbacks running fairly.
TrackUntouched == \A id \in MixTracks : loadPc[id] = "idle"
GenUntouched == \A id \in MixGens : ~generators[id].present

RampNext ==
    \/ \E id \in MixTracks : GenUntouched /\ AddTrack(id)
    \/ \E id \in MixTracks : LoadAdvance(id)
    \/ \E id \in MixTracks : LoadFail(id)
    \/ \E id \in MixTracks, vol \in Volumes : GenUntouched /\ SetTrackVolume(id, vol)
    \/ \E id \in MixTracks : TrackTimeout(id)
    \/ \E id \in MixGens, vol \in Volumes : TrackUntouched /\ UpdateGenerator(id, vol)
    \/ \E id \in MixGens : GenTimeout(id)
    \/ Tick

SpecRamp == Init /\ [][RampNext]_vars /\ MixFairness

\* The session specification: mute, master automation and one track's load.
SessionTracks == {"rain-audio"}

SessionNext ==
    \/ \E id \in SessionTracks : AddTrack(id)
    \/ \E id \in SessionTracks : LoadAdvance(id)
    \/ \E id \in SessionTracks : LoadFail(id)
    \/ ToggleMasterMute
    \/ \E d \in FadeTicks : FadeMasterOut(d)
    \/ ResetMasterVolume
    \/ Tick

SpecSession == Init /\ [][SessionNext]_vars

\* the session specification with the context's clock advancing
SpecSessionFair == Init /\ [][SessionNext]_vars /\ WF_vars(Tick)

\* The analysis specification: getAnalysis on every spectrum of the family, in
\* every state of one track (either load outcome) and of one generator that is
\* switched on.
AnalysisTracks == {"rain-audio"}
AnalysisGens == {"brown"}
OnVolumes == Volumes \ {0}

AnalysisNext ==
    \/ \E id \in AnalysisTracks : AddTrack(id)
    \/ \E id \in AnalysisTracks : LoadAdvance(id)
    \/ \E id \in AnalysisTracks : LoadFail(id)
    \/ \E id \in AnalysisTracks, vol \in Volumes : SetTrackVolume(id, vol)
    \/ \E id \in AnalysisTracks : TrackTimeout(id)
    \/ \E id \in AnalysisGens, vol \in OnVolumes : UpdateGenerator(id, vol)
    \/ \E sh \in Shapes : GetAnalysis(sh)
    \/ Tick

SpecAnalysis == Init /\ [][AnalysisNext]_vars

\* The mute specification: the master operations while one source, the track
\* or the generator, loads, plays and is torn down. A master operation reads
\* nothing of the master gain's automation, so each one is issued once the
\* previous one has settled; the sources may be in any state at that moment.
MasterAtRest == master.rampIn = 0 /\ MasterTick(master) = master

MuteNext ==
    \/ \E id \in MixTracks : GenUntouched /\ AddTrack(id)
    \/ \E id \in MixTracks : LoadAdvance(id)
    \/ \E id \in MixTracks : LoadFail(id)
    \/ \E id \in MixTracks, vol \in Volumes : GenUntouched /\ SetTrackVolume(id, vol)
    \/ \E id \in MixTracks : TrackTimeout(id)
    \/ \E id \in MixGens, vol \in Volumes : TrackUntouched /\ UpdateGenerator(id, vol)
    \/ \E id \in MixGens : GenTimeout(id)
    \/ MasterAtRest /\ ToggleMasterMute
    \/ \E d \in FadeTicks : MasterAtRest /\ FadeMasterOut(d)
    \/ MasterAtRest /\ ResetMasterVolume
    \/ Tick

SpecMute == Init /\ [][MuteNext]_vars

\* The spatial specification: the panning loop and its switch while the tracks
\* load, with either outcome.
SpatialNext ==
    \/ \E id \in TrackIds : AddTrack(id)
    \/ \E id \in TrackIds : LoadAdvance(id)
    \/ \E id \in TrackIds : LoadFail(id)
    \/ \E enabled \in BOOLEAN : ToggleSpatial(enabled)
    \/ AnimationFrame

SpecSpatial == Init /\ [][SpatialNext]_vars

\* The sleep specification: countdowns of whole minutes, started, replaced and
\* cleared, while the session is muted and unmuted and one track and one
\* generator are switched on. The countdown's seconds are counted by the
\* interval; the context's clock does not advance.
SleepNext ==
    \/ \E m \in Minutes : StartTimer(m * 60)
    \/ \E iv \in sleep.intervals : IntervalTick(iv)
    \/ ClearTime
    \/ ToggleMasterMute
    \/ \E id \in MixTracks : GenUntouched /\ AddTrack(id)
    \/ \E id \in MixTracks : LoadAdvance(id)
    \/ \E id \in MixTracks : LoadFail(id)
    \/ \E id \in MixTracks : GenUntouched /\ SetTrackVolume(id, ScnVol)
    \/ \E id \in MixGens : TrackUntouched /\ UpdateGenerator(id, ScnVol)

SpecSleep == Init /\ [][SleepNext]_vars

\* The media specification: the media-session actions and the mute button,
\* with the master automation calls, while one track loads.
MediaNext ==
    \/ MediaPlay
    \/ MediaPause
    \/ MediaStop
    \/ ToggleMasterMute
    \/ \E d \in FadeTicks : FadeMasterOut(d)
    \/ ResetMasterVolume
    \/ \E id \in SessionTracks : AddTrack(id)
    \/ \E id \in SessionTracks : LoadAdvance(id)
    \/ \E id \in SessionTracks : LoadFail(id)

SpecMedia == Init /\ [][MediaNext]_vars

\* The noise specification: brown noise buffers for each sample rate, over
\* every sequence of white samples and every rounding.
NoiseNext ==
    \/ \E rate \in SampleRates : CreateNoiseBuffer(rate)
    \/ \E white \in Whites, up \in BOOLEAN, upScaled \in BOOLEAN : BrownStep(white, up, upScaled)

SpecNoise == Init /\ [][NoiseNext]_vars

\* The generator specification: each of the three generators, one per
\* behaviour (generators share no state), with its callbacks and the clock.
OthersUntouched(id) == \A g \in GenIds \ {id} : ~generators[g].present

GenNext ==
    \/ \E id \in GenIds, vol \in Volumes : OthersUntouched(id) /\ UpdateGenerator(id, vol)
    \/ \E id \in GenIds : GenTimeout(id)
    \/ Tick

SpecGen == Init /\ [][GenNext]_vars

\* ================================================================== claims
BufferIds == {id \in TrackIds : tracks[id].type = "buffer"}
BinauralNodes == <<"oscL", "oscR", "merger">>

\* C1: on a registered buffer track and on a generator, a positive-volume call
\* made while the source is not playing creates exactly one instance, which is
\* then the playing one, and marks the source playing; a positive-volume call
\* made while it is marked playing creates no instance and keeps the one it has.
C1_StartIsIdempotent ==
    [][ /\ \A id \in TrackIds, vol \in Volumes \ {0} :
              (/\ tracks[id].type = "buffer"
               /\ last'.op = "setTrackVolume" /\ last'.id = id
               /\ SetTrackVolume(id, vol)) =>
                 IF tracks[id].isPlaying
                 THEN /\ live'[id] = live[id]
                      /\ created'[id] = created[id]
                      /\ tracks'[id].source = tracks[id].source
                      /\ tracks'[id].isPlaying
                 ELSE /\ live[id] \subseteq live'[id]
                      /\ Cardinality(live'[id] \ live[id]) = 1
                      /\ live'[id] \ live[id] = {tracks'[id].source}
                      /\ tracks'[id].isPlaying
        /\ \A id \in GenIds, vol \in Volumes \ {0} :
              (last'.op = "updateGenerator" /\ last'.id = id /\ UpdateGenerator(id, vol)) =>
                 IF generators[id].present /\ generators[id].active
                 THEN /\ live'[id] = live[id]
                      /\ created'[id] = created[id]
                      /\ generators'[id].inst = generators[id].inst
                      /\ generators'[id].active
                 ELSE /\ live[id] \subseteq live'[id]
                      /\ Cardinality(live'[id] \ live[id]) = 1
                      /\ live'[id] \ live[id] = {generators'[id].inst}
                      /\ generators'[id].active
      ]_vars

\* a positive-volume call has just been made on a generator that is running its
\* second instance, while a buffer track plays its own single instance
C1_Witness ==
    /\ last.op = "updateGenerator"
    /\ generators[last.id].active /\ generators[last.id].gainTarget > 0
    /\ live[last.id] = {2}
    /\ \E id \in BufferIds : tracks[id].isPlaying /\ Cardinality(live[id]) = 1

\* C2 (as claimed): a teardown callback that runs while the source is marked
\* playing and its requested volume is positive again (it was set to 0, which
\* scheduled the callback, and raised before the callback ran) leaves the
\* playing instance alone: same instance, still marked playing, still running.
C2_RaisedVolumeSurvivesCallback ==
    [][ /\ \A id \in TrackIds :
              (TrackTimeout(id) /\ tracks[id].isPlaying /\ tracks[id].gainTarget > 0) =>
                  /\ tracks'[id].isPlaying
                  /\ tracks'[id].source = tracks[id].source
                  /\ live'[id] = live[id]
        /\ \A id \in GenIds :
              (GenTimeout(id) /\ generators[id].active /\ generators[id].gainTarget > 0) =>
                  /\ generators'[id].active
                  /\ generators'[id].inst = generators[id].inst
                  /\ live'[id] = live[id]
      ]_vars

\* C3 (as claimed, in the form a finite run refutes): only a callback tears a
\* source down, so once the volume asked for is 0 and no callback is pending any
\* more, the source has been torn down: nothing running, no instance held, not
\* marked playing.
C3_TornDownOnceCallbacksRan ==
    /\ \A id \in BufferIds :
          (tracks[id].gainTarget = 0 /\ timers[id] = <<>>) =>
              ~tracks[id].isPlaying /\ tracks[id].source = 0 /\ live[id] = {}
    /\ \A id \in GenIds :
          (generators[id].present /\ generators[id].gainTarget = 0 /\ timers[id] = <<>>) =>
              ~generators[id].active /\ generators[id].nodes = <<>> /\ live[id] = {}

\* C4: every source id has at most one instance that was started and not stopped.
C4_AtMostOneLiveInstance ==
    \A id \in SourceIds : Cardinality(live[id]) <= 1

\* a generator was torn down and started again, and a buffer track is playing
C4_Witness ==
    /\ \E id \in GenIds : generators[id].active /\ live[id] = {2}
    /\ \E id \in BufferIds : tracks[id].isPlaying /\ live[id] = {tracks[id].source}

\* C5 (as claimed): once the callback of the restart scenario has run, the
\* generator is active with exactly one oscillator pair.
C5_ScenarioLeavesOnePair ==
    scn = 4 =>
        /\ generators[ScnGen].active
        /\ generators[ScnGen].nodes = BinauralNodes
        /\ Cardinality(live[ScnGen]) = 1

\* C6 (as claimed): with some source flagged active, getAnalysis returns at
\* least 25.
C6_ActiveMeansAtLeastFloor ==
    (last.op = "getAnalysis" /\ HasActiveAudio) => ret.value >= 25 * BinCount

\* C6 (amended): with some source flagged active, getAnalysis returns 25 when
\* the spectral mean is below 15 and the mean itself otherwise, so at least 15.
C6_ActiveMeansFloorBelowThreshold ==
    (last.op = "getAnalysis" /\ HasActiveAudio) =>
        /\ ret.sum < 15 * BinCount => ret.value = 25 * BinCount
        /\ ret.sum >= 15 * BinCount => ret.value = ret.sum
        /\ ret.value >= 15 * BinCount

\* a source is active and the mean lies between the threshold and the floor
C6_Witness ==
    /\ last.op = "getAnalysis" /\ HasActiveAudio
    /\ ret.sum >= 15 * BinCount /\ ret.value < 25 * BinCount

\* C7: getAnalysis returns a value in 0..255, and exactly the spectral mean
\* when no track and no generator is flagged active (0 on a silent bus).
C7_RangeAndMeanWhenIdle ==
    last.op = "getAnalysis" =>
        /\ ret.value >= 0 /\ ret.value <= 255 * BinCount
        /\ ~HasActiveAudio => ret.value = ret.sum

\* nothing is active any more after a teardown, and a silent bus reads 0
C7_Witness ==
    /\ last.op = "getAnalysis" /\ ~HasActiveAudio
    /\ ret.sum = 0 /\ ret.value = 0
    /\ \E id \in BufferIds : created[id] > 0

\* C8 (as claimed): two consecutive toggleMasterMute calls restore the mute
\* flag, the master-gain target and the muted flag of every fallback track.
C8_ToggleTwiceRestores ==
    LET once == ToggleResult(isMuted, master, element, tracks)
        twice == ToggleResult(once.isMuted, once.master, once.element, tracks)
    IN  /\ twice.isMuted = isMuted
        /\ twice.master.target = master.target
        /\ \A id \in TrackIds :
              tracks[id].type = "html5" => twice.element[id].muted = element[id].muted

\* C9: toggleMasterMute returns true exactly when the session is not muted
\* after the call; the first call of a session returns true; the master-gain
\* target after the call is 0 if muted and masterVolume otherwise.
C9_ToggleReturnsAudible ==
    [][ ToggleMasterMute =>
           /\ ret'.value = ~isMuted'
           /\ isMuted' = ~isMuted
           /\ master'.target = (IF isMuted' THEN 0 ELSE MasterVolume)
           /\ playbackState = "none" => ret'.value = TRUE
      ]_vars

\* a toggle has unmuted the session while a fade-out ramp was still ahead
C9_Witness ==
    /\ last.op = "toggleMasterMute"
    /\ ret = [kind |-> "bool", value |-> TRUE]
    /\ ~isMuted /\ master.target = MasterVolume /\ master.rampIn > 0

\* C10 (as claimed): a failed load leaves the id registered as a fallback
\* source that is muted and at volume 0, whatever the mute state.
C10_FallbackStartsMuted ==
    last.op = "loadFail" =>
        /\ tracks[last.id].type = "html5"
        /\ element[last.id].volume = 0
        /\ element[last.id].muted = TRUE
        /\ addOutcome[last.id] = "resolved"

\* C10 (amended): a failed load resolves addTrack's promise and leaves the id
\* registered as a fallback source at volume 0 whose muted flag is the
\* session's mute flag at that moment.
C10_FallbackTakesSessionMute ==
    last.op = "loadFail" =>
        /\ tracks[last.id].type = "html5"
        /\ element[last.id].volume = 0
        /\ element[last.id].muted = isMuted
        /\ addOutcome[last.id] = "resolved"

\* a load has failed while the session was not muted
C10_Witness ==
    /\ last.op = "loadFail" /\ ~isMuted
    /\ tracks[last.id].type = "html5" /\ ~element[last.id].muted

\* a fallback track that is playing, i.e. whose element is not paused
FallbackPlaying(id) == tracks[id].type = "html5" /\ ~element[id].paused

\* C11: on a fallback track a positive-volume call sets the element's volume to
\* that value and, if the element is paused, calls play(), which begins playback
\* unless the platform rejects it; a playing fallback keeps playing.  While a
\* fallback plays, getAnalysis finds a source active, and returns at least the
\* floor when the spectral mean is below the threshold.
C11_FallbackPlaysAndIsActive ==
    [][ /\ \A id \in TrackIds, vol \in Volumes \ {0} :
              (tracks[id].type = "html5" /\ SetTrackVolume(id, vol)) =>
                  /\ element'[id].volume = vol
                  /\ element[id].paused =>
                        /\ ret'.kind = "play"
                        /\ ret'.started = FallbackPlaying(id)'
                  /\ ~element[id].paused => FallbackPlaying(id)'
        /\ \A sh \in Shapes :
              (GetAnalysis(sh) /\ \E id \in TrackIds : FallbackPlaying(id)) =>
                  /\ ret'.active
                  /\ ret'.sum < 15 * BinCount => ret'.value >= 25 * BinCount
      ]_vars

\* getAnalysis has run on a silent bus while a fallback track was the only
\* source playing, and returned the floor
C11_Witness ==
    /\ last.op = "getAnalysis" /\ ret.active
    /\ ret.sum = 0 /\ ret.value = 25 * BinCount
    /\ \E id \in TrackIds : FallbackPlaying(id) /\ element[id].volume > 0
    /\ BufferIds = {}
    /\ \A id \in GenIds : ~generators[id].active

\* C12: setTrackVolume on an id with no registered track (never added, or its
\* load still under way) returns nothing and changes nothing: no timer, no
\* instance, no record; the load that completes later registers the track not
\* playing, without instance, with gain 0.
C12_UnregisteredIsNoOp ==
    [][ /\ \A id \in TrackIds, vol \in Volumes :
              (tracks[id].type = "none" /\ SetTrackVolume(id, vol)) =>
                  /\ ret' = NoRet
                  /\ UNCHANGED <<mixerVars, masterVars>>
        /\ \A id \in TrackIds :
              (tracks[id].type = "none" /\ LoadAdvance(id) /\ tracks'[id].type # "none") =>
                  /\ tracks'[id].type = "buffer"
                  /\ ~tracks'[id].isPlaying /\ tracks'[id].source = 0
                  /\ tracks'[id].gainValue = 0 /\ tracks'[id].gainTarget = 0
                  /\ timers'[id] = <<>> /\ live'[id] = {}
      ]_vars

\* a volume call has just been made for a track whose load is still decoding
C12_Witness ==
    /\ last.op = "setTrackVolume"
    /\ tracks[last.id].type = "none" /\ loadPc[last.id] = "decode"
    /\ timers[last.id] = <<>> /\ live[last.id] = {}

C14_RepeatedCallChangesNothing ==
    [][ /\ \A id \in TrackIds, vol \in Volumes :
              (/\ tracks[id].type = "buffer" /\ tracks[id].gainTarget = vol
               /\ timers[id] = <<>> /\ created[id] > 0
               /\ SetTrackVolume(id, vol)) =>
                  /\ tracks'[id].isPlaying = tracks[id].isPlaying
                  /\ tracks'[id].source = tracks[id].source
                  /\ tracks'[id].gainTarget = tracks[id].gainTarget
                  /\ live'[id] = live[id]
        /\ \A id \in GenIds, vol \in Volumes :
              (/\ generators[id].present /\ generators[id].gainTarget = vol
               /\ timers[id] = <<>>
               /\ UpdateGenerator(id, vol)) =>
                  /\ generators'[id].active = generators[id].active
                  /\ generators'[id].inst = generators[id].inst
                  /\ generators'[id].gainTarget = generators[id].gainTarget
                  /\ live'[id] = live[id]
      ]_vars

\* what a zero-volume call on a playing buffer track or active generator does:
\* nothing is stopped, and one more callback is due in 200 ms
KeepsPlayingAndSchedules(id) ==
    /\ live'[id] = live[id] /\ live[id] # {}
    /\ timers'[id] = Append(timers[id], TimeoutTicks)

\* C15 (as claimed): a zero-volume call on a playing source of any kind tears
\* nothing down in the call itself: a buffer track and a generator keep their
\* instance and flag, and a playing fallback element is not paused by the call.
C15_NoSynchronousTeardown ==
    [][ /\ \A id \in TrackIds :
              (tracks[id].type = "buffer" /\ tracks[id].isPlaying /\ SetTrackVolume(id, 0)) =>
                  /\ KeepsPlayingAndSchedules(id)
                  /\ tracks'[id].isPlaying /\ tracks'[id].source = tracks[id].source
        /\ \A id \in GenIds :
              (generators[id].present /\ generators[id].active /\ UpdateGenerator(id, 0)) =>
                  /\ KeepsPlayingAndSchedules(id)
                  /\ generators'[id].active /\ generators'[id].nodes = generators[id].nodes
        /\ \A id \in TrackIds :
              (FallbackPlaying(id) /\ SetTrackVolume(id, 0)) => FallbackPlaying(id)'
      ]_vars

\* C15 (amended): a zero-volume call on a playing buffer track or active
\* generator stops nothing in the call itself and schedules a callback 200 ms
\* later, and an instance is only ever stopped by such a callback; a playing
\* fallback element is paused by the call itself, with no callback.
C15_OnlyFallbackPausesAtOnce ==
    [][ /\ \A id \in TrackIds :
              (tracks[id].type = "buffer" /\ tracks[id].isPlaying /\ SetTrackVolume(id, 0)) =>
                  /\ KeepsPlayingAndSchedules(id)
                  /\ tracks'[id].isPlaying /\ tracks'[id].source = tracks[id].source
        /\ \A id \in GenIds :
              (generators[id].present /\ generators[id].active /\ UpdateGenerator(id, 0)) =>
                  /\ KeepsPlayingAndSchedules(id)
                  /\ generators'[id].active /\ generators'[id].nodes = generators[id].nodes
        /\ \A id \in SourceIds :
              ~(live[id] \subseteq live'[id]) =>
                  /\ last'.op \in {"trackTimeout", "genTimeout"} /\ last'.id = id
                  /\ timers[id] # <<>> /\ Head(timers[id]) = 0
        /\ \A id \in TrackIds :
              (FallbackPlaying(id) /\ SetTrackVolume(id, 0)) =>
                  /\ element'[id].paused /\ element'[id].volume = 0
                  /\ ret' = [kind |-> "pause", wasPlaying |-> TRUE]
                  /\ timers'[id] = timers[id]
      ]_vars

\* a zero-volume call has just paused a fallback element that was playing
C15_Witness ==
    /\ last.op = "setTrackVolume"
    /\ tracks[last.id].type = "html5"
    /\ ret = [kind |-> "pause", wasPlaying |-> TRUE]
    /\ element[last.id].paused /\ timers[last.id] = <<>>

\* the master gain is at rest: no ramp ahead and its automation moves it no more
\* C16 (as claimed, in the form a finite run refutes): the master gain settles
\* at the target of the latest automation call, so whenever it is at rest its
\* value is that target.
C16_SettlesAtLatestTarget ==
    MasterAtRest => master.value = master.target

\* C17: resetMasterVolume leaves no ramp ahead and sets the master-gain target
\* to 0 if the session is muted and to masterVolume otherwise, and the master
\* gain then reaches that target unless another call is made first.
C17_ResetRestoresTarget ==
    /\ [](last.op = "resetMasterVolume" =>
             /\ master.rampIn = 0
             /\ master.target = (IF isMuted THEN 0 ELSE MasterVolume))
    /\ (last.op = "resetMasterVolume") ~>
          (last.op # "resetMasterVolume" \/ master.value = master.target)

\* resetMasterVolume has been called on an unmuted session whose master gain a
\* fade had lowered, and the gain is on its way back up
C17_Witness ==
    /\ last.op = "resetMasterVolume" /\ ~isMuted
    /\ master.rampIn = 0 /\ master.target = MasterVolume
    /\ master.value > 0 /\ master.value < MasterVolume

\* C18: whatever the white samples in [-1, 1], the brown integrator stays
\* within [-1, 1] at every step, no sample written exceeds 3.5 in magnitude,
\* and the buffer returned holds exactly 2 * sampleRate samples.
C18_BrownStaysBounded ==
    /\ noise.lastOut >= -NoiseScale /\ noise.lastOut <= NoiseScale
    /\ 10 * noise.sample >= -35 * NoiseScale /\ 10 * noise.sample <= 35 * NoiseScale
    /\ ret.kind = "buffer" => ret.length = 2 * noise.rate

\* a buffer of more than two samples has been returned whose last sample has
\* magnitude 3.5, the integrator having reached -1
C18_Witness ==
    /\ ret.kind = "buffer" /\ ret.length > 2
    /\ noise.lastOut = -NoiseScale
    /\ 10 * noise.sample = -35 * NoiseScale

\* the gain is below 0.01
BelowThreshold(gainValue) == 100 * gainValue < GainScale

\* C19: a buffer track or generator is torn down (instance stopped, flag
\* cleared, instance or node list dropped) only by a callback that is due and
\* that reads a gain below 0.01; a callback leaves the list of pending
\* callbacks only by running; and a callback that reads a gain of 0.01 or more
\* changes nothing.
C19_TeardownOnlyBelowThreshold ==
    [][ /\ \A id \in TrackIds :
              (/\ tracks[id].type = "buffer"
               /\ \/ ~(live[id] \subseteq live'[id])
                  \/ tracks[id].isPlaying /\ ~tracks'[id].isPlaying
                  \/ tracks[id].source # 0 /\ tracks'[id].source # tracks[id].source) =>
                  /\ TrackTimeout(id)
                  /\ BelowThreshold(tracks[id].gainValue)
        /\ \A id \in GenIds :
              (/\ generators[id].present
               /\ \/ ~(live[id] \subseteq live'[id])
                  \/ generators[id].active /\ ~generators'[id].active
                  \/ generators[id].nodes # <<>> /\ generators'[id].nodes # generators[id].nodes) =>
                  /\ GenTimeout(id)
                  /\ BelowThreshold(generators[id].gainValue)
        /\ \A id \in SourceIds :
              Len(timers'[id]) < Len(timers[id]) =>
                  /\ last'.op \in {"trackTimeout", "genTimeout"} /\ last'.id = id
                  /\ Head(timers[id]) = 0 /\ timers'[id] = Tail(timers[id])
        /\ \A id \in TrackIds :
              (TrackTimeout(id) /\ ~BelowThreshold(tracks[id].gainValue)) =>
                  tracks'[id] = tracks[id] /\ live'[id] = live[id]
        /\ \A id \in GenIds :
              (GenTimeout(id) /\ ~BelowThreshold(generators[id].gainValue)) =>
                  generators'[id] = generators[id] /\ live'[id] = live[id]
      ]_vars

\* a track's callback has just run, read a gain of 0.01 or more and left the
\* track playing, after a generator's callback had torn the generator down
C19_Witness ==
    /\ last.op = "trackTimeout"
    /\ tracks[last.id].isPlaying /\ live[last.id] # {}
    /\ tracks[last.id].gainTarget = 0 /\ ~BelowThreshold(tracks[last.id].gainValue)
    /\ \E id \in GenIds :
          /\ generators[id].present /\ ~generators[id].active
          /\ created[id] > 0 /\ live[id] = {}

\* the nodes of a list, as a set
Nodes(list) == {list[k] : k \in 1..Len(list)}

\* C20: an updateGenerator call creates the generator's gain node if the id is
\* new and otherwise keeps the one it has; when it finds the generator inactive
\* and the volume positive it builds one node list, starts every node but the
\* last (the only node of a one-node list) and connects the last to the gain;
\* any other call builds, starts and connects nothing.
C20_ConstructionStartsAndConnects ==
    [][ \A id \in GenIds, vol \in Volumes :
           UpdateGenerator(id, vol) =>
              LET before == generators[id]
                  after == generators'[id]
                  n == Len(after.nodes)
              IN  /\ after.present /\ after.gains = 1
                  /\ before.present => before.gains = 1
                  /\ IF vol > 0 /\ ~before.active
                     THEN /\ created'[id] # created[id]
                          /\ Cardinality(live'[id] \ live[id]) = 1
                          /\ n = (IF id = "brown" THEN 1 ELSE IF id = "green" THEN 2 ELSE 3)
                          /\ \A k \in 1..n :
                                (after.nodes[k] \in Nodes(after.started)) <=> (k < n \/ n = 1)
                          /\ Len(after.started) = (IF n = 1 THEN 1 ELSE n - 1)
                          /\ after.output = after.nodes[n]
                          /\ after.active
                     ELSE /\ created'[id] = created[id] /\ live'[id] = live[id]
                          /\ after.nodes = before.nodes /\ after.started = before.started
                          /\ after.output = before.output
      ]_vars

\* the brown generator has just been activated for the second time: its one
\* node is started and connected, on the gain node created at first reference
C20_Witness ==
    /\ last.op = "updateGenerator" /\ last.id = "brown"
    /\ generators["brown"].active /\ generators["brown"].gains = 1
    /\ generators["brown"].started = <<"src">> /\ generators["brown"].output = "src"
    /\ created["brown"] = 2 /\ live["brown"] = {2}

\* C21: every registered fallback track's element has its muted flag equal to
\* the engine's mute flag, however failed loads and mute toggles interleave.
C21_FallbackMutedIsSessionMute ==
    \A id \in TrackIds : tracks[id].type = "html5" => element[id].muted = isMuted

\* the session has been unmuted and muted again since a load failed, and the
\* last toggle has muted the fallback's element
C21_Witness ==
    /\ last.op = "toggleMasterMute" /\ isMuted /\ playbackState = "paused"
    /\ \E id \in TrackIds : tracks[id].type = "html5" /\ element[id].muted

\* what the master operations leave alone: every track's record (playing flag,
\* instance, gain and its target), every element's volume and paused flag,
\* every generator, every instance and callback, and masterVolume
SourcesUntouched ==
    /\ tracks' = tracks /\ generators' = generators
    /\ live' = live /\ created' = created /\ timers' = timers
    /\ \A id \in TrackIds :
          /\ element'[id].volume = element[id].volume
          /\ element'[id].paused = element[id].paused
    /\ master'.volume = master.volume /\ master.volume = MasterVolume

\* C22: toggleMasterMute, fadeMasterOut and resetMasterVolume leave masterVolume
\* at 1.0 and change no track's playing flag, instance or gain target and no
\* generator's active flag or node list.
C22_MuteLeavesSourcesAlone ==
    [][ (ToggleMasterMute \/ (\E d \in FadeTicks : FadeMasterOut(d)) \/ ResetMasterVolume)
        => SourcesUntouched ]_vars

\* a master operation has run while a buffer track was playing above zero, or
\* while a generator was active, with a teardown callback pending
C22_Witness ==
    /\ last.op \in {"toggleMasterMute", "fadeMasterOut", "resetMasterVolume"}
    /\ \/ \E id \in MixTracks : /\ tracks[id].type = "buffer" /\ tracks[id].isPlaying
                                 /\ tracks[id].gainTarget > 0
       \/ \E id \in MixGens : generators[id].active /\ timers[id] # <<>>
    /\ master.target = 0 /\ master.value > 0

\* C23: the spatial phase never decreases and advances, by one step, only on
\* an animation frame run while spatial panning is enabled; toggleSpatial(false)
\* sets the pan target of every track with a panner to 0, and while panning is
\* disabled no frame changes any pan.
C23_PhaseAndPanFollowSwitch ==
    [][ /\ spatial'.time >= spatial.time
        /\ spatial'.time # spatial.time
              => /\ AnimationFrame /\ spatial.enabled
                 /\ spatial'.time = spatial.time + 1
        /\ ToggleSpatial(FALSE)
              => /\ ~spatial'.enabled
                 /\ \A id \in TrackIds : HasPanner(id) => spatial'.pan[id] = PanCentering
        /\ (~spatial.enabled /\ last'.op # "toggleSpatial")
              => spatial'.pan = spatial.pan /\ spatial'.time = spatial.time
      ]_vars

\* a frame has run with panning switched off, after frames had moved the phase
\* and the switch had sent a track's pan back to center
C23_Witness ==
    /\ last.op = "animationFrame" /\ ~spatial.enabled /\ spatial.time >= 2
    /\ \E id \in TrackIds : HasPanner(id) /\ spatial.pan[id] = PanCentering
    /\ \E id \in TrackIds : tracks[id].type = "html5" /\ spatial.pan[id] = PanDefault

\* C24: when the platform rejects the start of a fallback track's playback,
\* setTrackVolume still returns normally with the volume stored, the element
\* stays paused and nothing else changes; and every positive-volume call on a
\* paused fallback track asks the element to play, whatever happened before.
C24_RejectedStartIsContained ==
    [][ \A id \in TrackIds :
          (/\ last'.op = "setTrackVolume" /\ last'.id = id
           /\ tracks[id].type = "html5" /\ element[id].paused
           /\ \E vol \in Volumes \ {0} : SetTrackVolume(id, vol))
          => /\ ret'.kind = "play"
             /\ element'[id].volume > 0
             /\ ~ret'.started
                   => /\ element'[id].paused
                      /\ element'[id].muted = element[id].muted
                      /\ \A other \in TrackIds \ {id} : element'[other] = element[other]
                      /\ UNCHANGED <<tracks, generators, timers, live, created,
                                     loadPc, addOutcome, masterVars>>
      ]_vars

\* the platform has rejected a start while a generator was active: the call
\* returned, the volume is stored and the element is still paused
C24_Witness ==
    /\ last.op = "setTrackVolume" /\ ret = [kind |-> "play", started |-> FALSE]
    /\ \E id \in AnalysisTracks :
          /\ last.id = id /\ tracks[id].type = "html5"
          /\ element[id].paused /\ element[id].volume = 5
    /\ \E g \in AnalysisGens : generators[g].active

\* C25: a buffer track is marked playing exactly when it holds a playing
\* instance, and a generator is marked active exactly when its node list is
\* not empty.
C25_FlagsMatchInstances ==
    /\ \A id \in TrackIds :
          tracks[id].type = "buffer" => (tracks[id].isPlaying <=> tracks[id].source # 0)
    /\ \A id \in GenIds : generators[id].active <=> generators[id].nodes # <<>>

\* a track has been started and torn down again while a generator, itself
\* restarted after a teardown, is active
C25_Witness ==
    /\ \E id \in TrackIds :
          /\ tracks[id].type = "buffer" /\ created[id] > 0
          /\ ~tracks[id].isPlaying /\ tracks[id].source = 0
    /\ \E id \in GenIds :
          /\ generators[id].active /\ generators[id].nodes # <<>>
          /\ created[id] > 1

\* the master gain's target is back at 0 if muted and at masterVolume if not,
\* with nothing else scheduled
TargetRestored ==
    /\ master'.target = (IF isMuted THEN 0 ELSE MasterVolume)
    /\ master'.rampIn = 0

\* every slider's handler has been run with 0
AllSlidersAtZero ==
    /\ \A id \in TrackIds :
          /\ tracks'[id].type = "buffer" => tracks'[id].gainTarget = 0
          /\ tracks'[id].type = "html5" => element'[id].volume = 0 /\ element'[id].paused
          /\ (tracks[id].type = "buffer" /\ tracks[id].isPlaying) => timers'[id] # <<>>
    /\ \A id \in GenIds :
          /\ generators'[id].present /\ generators'[id].gainTarget = 0
          /\ generators[id].active => timers'[id] # <<>>

\* C26: at most one countdown interval is active, and it is the one timerInt
\* names; a tick calls fadeMasterOut(60) exactly when 60 seconds remain, so a
\* countdown of at least 60 seconds that runs out has faded exactly once; when
\* an interval's tick finds no time left, or clearTime is called, no interval
\* remains and the master target is restored; on expiry every slider is at 0.
C26_SleepTimer ==
    [][ /\ Cardinality(sleep'.intervals) <= 1
        /\ \A iv \in sleep'.intervals : iv.h = sleep'.timerInt
        /\ \A secs \in {m * 60 : m \in Minutes} :
              (last'.op = "startTimer" /\ StartTimer(secs))
              => /\ sleep'.fades = (IF secs = 60 THEN 1 ELSE 0)
                 /\ secs = 60 => master'.target = 0 /\ master'.rampIn = FadeSeconds * TicksPerSecond
                 /\ secs > 60 => TargetRestored
                 /\ secs <= 0 => TargetRestored /\ AllSlidersAtZero
                 /\ sleep'.intervals = {[h |-> sleep'.timerInt, left |-> secs - 1]}
        /\ \A iv \in sleep.intervals :
              (last'.op = "intervalTick" /\ IntervalTick(iv))
              => /\ (sleep'.fades = sleep.fades + 1) <=> iv.left = 60
                 /\ sleep'.fades # sleep.fades => iv.left = 60
                 /\ iv.left = 60
                       => master'.target = 0 /\ master'.rampIn = FadeSeconds * TicksPerSecond
                 /\ iv.left <= 0
                       => /\ sleep'.intervals = {}
                          /\ TargetRestored /\ AllSlidersAtZero
                          /\ sleep.secs >= 60 => sleep'.fades = 1
                 /\ iv.left > 0
                       => /\ sleep'.intervals = {[iv EXCEPT !.left = iv.left - 1]}
                          /\ UNCHANGED <<mixerVars, isMuted>>
        /\ (last'.op = "clearTime" /\ ClearTime)
              => sleep'.intervals = {} /\ TargetRestored /\ UNCHANGED mixerVars
      ]_vars

\* a two-minute countdown has run out on an unmuted session with a source
\* playing: it faded once, its interval is gone, the target is masterVolume
\* again and the source's teardown is pending
C26_Witness ==
    /\ last.op = "intervalTick" /\ sleep.intervals = {} /\ sleep.timerInt = 2
    /\ sleep.secs = 120 /\ sleep.fades = 1
    /\ ~isMuted /\ master.target = MasterVolume /\ master.rampIn = 0
    /\ \E id \in SourceIds : timers[id] # <<>>

\* C27 (as claimed): after the 'play' action the session is not muted, after
\* the 'pause' action and after the 'stop' action it is muted, whatever the
\* state before, and after every mute toggle the media session's
\* playbackState is 'paused' exactly when the engine is muted.
C27_MediaActionsSetMute ==
    [][ /\ MediaPlay => ~isMuted'
        /\ MediaPause => isMuted'
        /\ MediaStop => isMuted'
        /\ isMuted' # isMuted => (playbackState' = "paused" <=> isMuted')
      ]_vars

====
